---- MODULE Spec2Model ----
(***************************************************************************)
(* Model of the asynchronous query of Realm's object store                 *)
(* (src/Realm/ObjectStore/impl/async_query.cpp): the callback registry,    *)
(* the row-diff engine and the run / prepare_handover / deliver /          *)
(* call_callbacks cycle between the background worker and the consumer     *)
(* thread.                                                                 *)
(*                                                                         *)
(* Row indices and positions are 0-based as in the source; sequences are   *)
(* 1-based, so row i of a table is table[i + 1].  size_t values are kept   *)
(* modulo 2^SizeBits; npos is size_t(-1), the value the source writes as   *)
(* npos and as -1ULL.                                                      *)
(*                                                                         *)
(* The root table is the tests' IntObject: one integer column, no link     *)
(* columns.  REALM_ASSERT is a debug-build check: it guards no action      *)
(* here.                                                                   *)
(***************************************************************************)
EXTENDS Integers, Sequences, FiniteSets, TLC

\* ------------------------------------------------------------------ bounds
MaxRows  == 3      \* rows the table may hold
MaxVal   == 2      \* intCol ranges over 0..MaxVal
SizeBits == 4      \* width of size_t in the model
MaxOps   == 3      \* commits in a run of the worker alone
PipeOps  == 2      \* commits in a run of the pipeline
MaxAdds  == 2      \* add_callback calls in a registry run
MaxErr   == 1      \* distinct error values
LinkRows == 2      \* rows per table where links are followed
ErrKinds == 2
DeliveryOps == 1
LiveOps == 2
LinkCols == 2      \* columns of the root table where links are followed
ChainRows == 18    \* rows of a chain of links, one more than the hops followed

npos == 2^SizeBits - 1
SizeMod == 2^SizeBits

NoError == 0
Errors == 1..MaxErr

VARIABLES
    \* the database and its users
    table,          \* latest committed contents of the root table: intCol per row
    ver,            \* latest committed version
    origin,         \* per row of table: its index at the worker's snapshot, or npos
    changed,        \* indices (in table) of rows written since the worker's snapshot
    touched,        \* a matching row was inserted, written or deleted since then
    cver,           \* version of the consumer thread's snapshot
    lim,            \* [ops, adds, errs]: the run's budget; wants: what the target's
                    \* wants_background_updates() answers
    group,          \* the tables of the Realm: per table its columns and, per row,
                    \* the rows its link and link-list columns point to
    probe,          \* a call of row_did_change: its arguments and what it returned
    \* the background worker
    wpc,            \* "idle", "advanced", "attached", "ran", "handed"
    wver,           \* version of the worker's snapshot (m_sg)
    wtable,         \* contents of the root table at wver
    modified_rows,  \* the change records handed to run(): <<>> or <<ChangeInfo>>
    \* AsyncQuery
    m_sort, m_sg, m_query, m_query_handover,
    m_tv, m_previous_rows, m_new_changes, m_changes,
    m_initial_run_complete, m_sg_version,
    m_handed_over_table_version, m_delievered_table_version,
    m_tv_handover, m_target_results, m_error,
    m_callbacks, m_callback_index, m_have_callbacks,
    \* the consumer thread
    cpc,            \* "idle", "loop", "fetched", "in_fn", "tail"
    cur_fn,         \* the function next_callback returned, 0 when none
    target_tv,      \* the view held by the target Results: NoView or rows
    \* history
    used,           \* [ops, adds, errs]: commits, add_callback calls, errors so far
    h_kind,         \* what the commits of the worker's current cycle did
    h_old_rows,     \* m_previous_rows as the last diffing run() found it
    h_new_rows,     \* the rows the last diffing run() materialized
    h_ran,          \* "none", "skipped", "initial", "diff": what the last run() did
    h_pre_handover, \* m_tv_handover as the last run() found it
    h_cycles,       \* the cycles exported since the last view was installed
    h_prev_tv,      \* the view the target held before the last install
    h_installed,    \* the deliver that began the current pass installed a view
    h_pending,      \* h_cycles as that install found it
    h_passed,       \* the changeset handed to the callback being run
    h_issued,       \* tokens returned by add_callback, in order
    h_removed,      \* functions whose remove_callback has returned
    h_reg,          \* functions registered when the current pass's deliver ran
    h_due,          \* those of h_reg that were due
    h_calls,        \* the calls made in the current pass
    h_fix,          \* 1: this pass saw index 0 removed at cursor 0; 2: and a call after
    h_notified,     \* functions invoked since the last install
    h_cleared,      \* number of registrations made before the last error clear,
                    \* -1 while no error pass has ended
    h_added,        \* functions registered from inside a callback of the current pass
    h_inert,        \* an error was latched when the worker's current cycle began
    h_deliver       \* the last call of deliver: its arguments, what it found and
                    \* what it did

envVars == <<table, ver, origin, changed, touched, cver, lim, used>>
linkVars == <<group, probe>>
workerVars == <<wpc, wver, wtable, modified_rows>>
queryVars == <<m_sort, m_sg, m_query, m_query_handover, m_tv, m_previous_rows,
               m_new_changes, m_changes, m_initial_run_complete, m_sg_version,
               m_handed_over_table_version, m_tv_handover>>
targetVars == <<m_target_results, m_delievered_table_version, m_error, target_tv>>
registryVars == <<m_callbacks, m_callback_index, m_have_callbacks>>
consumerVars == <<cpc, cur_fn>>
runHist == <<h_kind, h_old_rows, h_new_rows, h_ran, h_pre_handover, h_inert>>
cycleHist == <<h_cycles, h_prev_tv, h_installed, h_pending, h_passed>>
passHist == <<h_issued, h_removed, h_reg, h_due, h_calls, h_fix, h_notified, h_cleared,
              h_added>>
callHist == <<h_deliver>>

vars == <<envVars, linkVars, workerVars, queryVars, targetVars, registryVars, consumerVars,
          runHist, cycleHist, passHist, callHist>>

\* ------------------------------------------------------------ size_t values
\* x + s for a size_t x and an int s, as `new_index.second + shift` computes it
AddShift(x, s) == (x + s + SizeMod) % SizeMod
Inc(x) == (x + 1) % SizeMod
Dec(x) == (x + SizeMod - 1) % SizeMod

\* --------------------------------------------------------- the query, views
NoView == [attached |-> FALSE, rows |-> <<>>]
View(rows) == [attached |-> TRUE, rows |-> rows]
NoPacket == [full |-> FALSE]

\* the tests' query: intCol > 0 AND intCol < 5
Matches(v) == v > 0 /\ v < 5

RECURSIVE InsertAfterLE(_, _)
InsertAfterLE(x, s) ==
    IF s = <<>> THEN <<x>>
    ELSE IF x[1] < Head(s)[1] THEN <<x>> \o s
    ELSE <<Head(s)>> \o InsertAfterLE(x, Tail(s))

\* std::stable_sort of pairs by .first
RECURSIVE StableSortByFirst(_)
StableSortByFirst(s) ==
    IF s = <<>> THEN <<>>
    ELSE InsertAfterLE(s[Len(s)], StableSortByFirst(SubSeq(s, 1, Len(s) - 1)))

\* m_query->find_all(): the matching rows' indices in table order
find_all(tab) ==
    LET F[n \in 0..Len(tab)] ==
            IF n = 0 THEN <<>>
            ELSE IF Matches(tab[n]) THEN Append(F[n - 1], n - 1) ELSE F[n - 1]
    IN F[Len(tab)]

\* m_tv.sort(columnIndices, ascending) on intCol
tv_sort(rows, tab, sort) ==
    IF sort = "none" THEN rows
    ELSE LET key(i) == IF sort = "asc" THEN tab[i + 1] ELSE MaxVal - tab[i + 1]
             sorted == StableSortByFirst([k \in 1..Len(rows) |-> <<key(rows[k]), rows[k]>>])
         IN [k \in 1..Len(rows) |-> sorted[k][2]]

Materialize(tab, sort) == tv_sort(find_all(tab), tab, sort)

\* ------------------------------------------------------------ row-diff engine
Change(o, n) == [old |-> o, new |-> n]

map_moves(idx, changes) ==
    IF idx \in DOMAIN changes.moves THEN changes.moves[idx] ELSE idx

\* a column of a table: its type ("int", "link" or "list") and, for a link or
\* link-list column, the index in the group of the table it points to
Column(type, target) == [type |-> type, target |-> target]

\* the tests' IntObject alone in its group: one integer column
IntObjectGroup == <<[cols |-> <<Column("int", 0)>>, links |-> <<>>]>>

\* table.get_linklist(i, idx) and table.get_link(i, idx): the rows, or the
\* row, that column i of row idx points to; a cell is kept as the list of its
\* target rows, one row for a link column
get_linklist(table_ndx, i, idx) == group[table_ndx + 1].links[idx + 1][i + 1]

get_link(table_ndx, i, idx) == get_linklist(table_ndx, i, idx)[1]

RECURSIVE row_did_change(_, _, _, _)
RECURSIVE follow_columns(_, _, _, _, _)

\* the column loop of row_did_change, from column i on: the first link column
\* ends the loop with what its target row gives, a link-list column ends it
\* if one of its target rows changed
follow_columns(table_ndx, idx, modified, depth, i) ==
    LET cols == group[table_ndx + 1].cols
    IN  IF i >= Len(cols) THEN FALSE
        ELSE IF cols[i + 1].type = "link"
        THEN row_did_change(cols[i + 1].target, get_link(table_ndx, i, idx),
                            modified, depth + 1)
        ELSE IF cols[i + 1].type # "list"
        THEN follow_columns(table_ndx, idx, modified, depth, i + 1)
        ELSE \/ \E j \in 1..Len(get_linklist(table_ndx, i, idx)) :
                    row_did_change(cols[i + 1].target, get_linklist(table_ndx, i, idx)[j],
                                   modified, depth + 1)
             \/ follow_columns(table_ndx, idx, modified, depth, i + 1)

\* variant of row_did_change: one more hop is followed before giving up
row_did_change_deeper(table_ndx, idx, modified, depth) ==
    IF depth > 17 THEN FALSE
    ELSE IF table_ndx < Len(modified)
    THEN (IF map_moves(idx, modified[table_ndx + 1]) \in modified[table_ndx + 1].changed
          THEN TRUE
          ELSE follow_columns(table_ndx, map_moves(idx, modified[table_ndx + 1]),
                              modified, depth, 0))
    ELSE follow_columns(table_ndx, idx, modified, depth, 0)

\* row_did_change(table, idx, modified, depth) for the table at table_ndx of
\* the group; map_moves rewrites idx in place, so the links followed are those
\* of the mapped row
row_did_change(table_ndx, idx, modified, depth) ==
    IF depth > 16 THEN FALSE
    ELSE IF table_ndx < Len(modified)
    THEN (IF map_moves(idx, modified[table_ndx + 1]) \in modified[table_ndx + 1].changed
          THEN TRUE
          ELSE follow_columns(table_ndx, map_moves(idx, modified[table_ndx + 1]),
                              modified, depth, 0))
    ELSE follow_columns(table_ndx, idx, modified, depth, 0)

RECURSIVE do_calculate_changes(_, _, _, _, _, _)
do_calculate_changes(old_rows, new_rows, i, j, shift, modified) ==
    IF i < Len(old_rows) /\ j < Len(new_rows)
    THEN LET old_index == old_rows[i + 1]
             new_index == new_rows[j + 1]
             shifted == AddShift(new_index[2], shift)
         IN  IF old_index[1] = new_index[1]
             THEN (IF old_index[2] # shifted
                   THEN <<Change(old_index[2], shifted)>>
                   ELSE IF row_did_change(0, old_index[1], modified, 0)
                        THEN <<Change(old_index[2], old_index[2])>>
                        ELSE <<>>)
                  \o do_calculate_changes(old_rows, new_rows, i + 1, j + 1, shift, modified)
             ELSE IF old_index[1] < new_index[1]
             THEN <<Change(old_index[2], npos)>>
                  \o do_calculate_changes(old_rows, new_rows, i + 1, j, shift + 1, modified)
             ELSE <<Change(npos, new_index[2])>>
                  \o do_calculate_changes(old_rows, new_rows, i, j + 1, shift - 1, modified)
    ELSE [k \in 1..(Len(old_rows) - i) |-> Change(old_rows[i + k][2], npos)]
         \o [k \in 1..(Len(new_rows) - j) |-> Change(npos, new_rows[j + k][2])]

\* the new view's row indices after `if (changes) map_moves(ndx, *changes)`
MappedIndex(ndx, modified) ==
    IF 0 < Len(modified) THEN map_moves(ndx, modified[1]) ELSE ndx

calculate_changes(previous_rows, tv_rows, modified) ==
    LET old_rows == StableSortByFirst(
                        [k \in 1..Len(previous_rows) |-> <<previous_rows[k], k - 1>>])
        new_rows == StableSortByFirst(
                        [k \in 1..Len(tv_rows) |-> <<MappedIndex(tv_rows[k], modified), k - 1>>])
    IN do_calculate_changes(old_rows, new_rows, 0, 0, 0, modified)

\* ------------------------------------------------- commits and change records
\* The change record of the commits made since the worker's snapshot:
\* moves maps a surviving row's old index to its new one, changed holds the
\* (new) indices of the rows written.
Moved == {k \in 1..Len(origin) : origin[k] # npos /\ origin[k] # k - 1}

ChangeInfo ==
    [moves |-> [o \in {origin[k] : k \in Moved} |->
                    (CHOOSE k \in Moved : origin[k] = o) - 1],
     changed |-> changed]

Values == 0..MaxVal

Tables(n) == [1..n -> Values]

CreateObject(v) ==
    /\ used.ops < lim.ops
    /\ Len(table) < MaxRows
    /\ table' = Append(table, v)
    /\ origin' = Append(origin, npos)
    /\ changed' = changed \cup {Len(table)}
    /\ touched' = (touched \/ Matches(v))
    /\ ver' = ver + 1
    /\ used' = [used EXCEPT !.ops = @ + 1]
    /\ UNCHANGED <<cver, lim, linkVars, callHist>>

SetValue(i, v) ==
    /\ used.ops < lim.ops
    /\ i < Len(table)
    /\ table[i + 1] # v
    /\ table' = [table EXCEPT ![i + 1] = v]
    /\ changed' = changed \cup {i}
    /\ touched' = (touched \/ Matches(table[i + 1]) \/ Matches(v))
    /\ ver' = ver + 1
    /\ used' = [used EXCEPT !.ops = @ + 1]
    /\ UNCHANGED <<origin, cver, lim, linkVars, callHist>>

\* deleting row i moves the last row into its place (move_last_over)
MoveLastOver(s, i) ==
    [k \in 1..(Len(s) - 1) |-> IF k = i + 1 THEN s[Len(s)] ELSE s[k]]

DeleteObject(i) ==
    LET last == Len(table) - 1
    IN  /\ used.ops < lim.ops
        /\ i < Len(table)
        /\ table' = MoveLastOver(table, i)
        /\ origin' = MoveLastOver(origin, i)
        /\ changed' = (changed \ {i, last})
                        \cup (IF i # last /\ last \in changed THEN {i} ELSE {})
        /\ touched' = (touched \/ Matches(table[i + 1]))
        /\ ver' = ver + 1
        /\ used' = [used EXCEPT !.ops = @ + 1]
        /\ UNCHANGED <<cver, lim, linkVars, callHist>>

\* a write transaction that creates or writes an object
WriteCommit ==
    /\ \/ \E v \in Values : CreateObject(v)
       \/ \E i \in 0..(MaxRows - 1), v \in Values : SetValue(i, v)
    /\ UNCHANGED <<workerVars, queryVars, targetVars, registryVars, consumerVars,
                   runHist, cycleHist, passHist>>

\* a write transaction that deletes an object
DeleteCommit ==
    /\ \E i \in 0..(MaxRows - 1) : DeleteObject(i)
    /\ UNCHANGED <<workerVars, queryVars, targetVars, registryVars, consumerVars,
                   runHist, cycleHist, passHist>>

Commit == WriteCommit \/ DeleteCommit

\* the consumer thread's Realm advances to the latest version
Refresh ==
    /\ cpc = "idle"
    /\ cver # ver
    /\ cver' = ver
    /\ UNCHANGED <<table, ver, origin, changed, touched, lim, linkVars, callHist, used, workerVars, queryVars,
                   targetVars, registryVars, consumerVars, runHist, cycleHist, passHist>>

\* ------------------------------------------------------ the background worker
\* the matching objects are in the same order in the sorted view as they were
\* at the worker's snapshot
OrderKept ==
    LET tv == Materialize(table, m_sort)
    IN  [k \in 1..Len(tv) |-> origin[tv[k] + 1]] = Materialize(wtable, m_sort)

\* what the commits since the worker's snapshot did: nothing; "other": a
\* matching row was inserted, written or deleted; "reloc": matching rows only
\* changed their index, their order in the view kept; "reorder": not kept;
\* "quiet": no matching row was written or moved
CycleKind ==
    IF ver = wver THEN "none"
    ELSE IF touched THEN "other"
    ELSE IF \E k \in Moved : Matches(table[k])
         THEN (IF OrderKept THEN "reloc" ELSE "reorder")
    ELSE "quiet"

\* the coordinator advances the worker's snapshot and collects the change record
AdvanceWorker ==
    /\ wpc = "idle"
    /\ wpc' = "advanced"
    /\ wver' = ver
    /\ wtable' = table
    /\ modified_rows' = IF ver = wver THEN <<>> ELSE <<ChangeInfo>>
    /\ h_kind' = CycleKind
    /\ h_inert' = (m_error # NoError)
    /\ origin' = [k \in 1..Len(table) |-> k - 1]
    /\ changed' = {}
    /\ touched' = FALSE
    /\ UNCHANGED <<table, ver, cver, lim, linkVars, callHist, used, queryVars, targetVars, registryVars,
                   consumerVars, h_old_rows, h_new_rows, h_ran, h_pre_handover,
                   cycleHist, passHist>>

\* importing a packet that is not there gives no query
attach_to ==
    /\ wpc = "advanced"
    /\ wpc' = "attached"
    /\ m_query' = m_query_handover
    /\ m_query_handover' = FALSE
    /\ m_sg' = TRUE
    /\ UNCHANGED <<envVars, linkVars, callHist, wver, wtable, modified_rows, m_sort, m_tv, m_previous_rows,
                   m_new_changes, m_changes, m_initial_run_complete, m_sg_version,
                   m_handed_over_table_version, m_tv_handover, targetVars,
                   registryVars, consumerVars, runHist, cycleHist, passHist>>

\* variant of RunResult: after the initial run the view is never kept
RunResult_discarding(tv) ==
    IF m_initial_run_complete
    THEN [tv |-> NoView,
          new_changes |-> calculate_changes(m_previous_rows, tv, modified_rows),
          previous_rows |-> m_previous_rows]
    ELSE [tv |-> View(tv), new_changes |-> m_new_changes, previous_rows |-> tv]

\* variant of RunResult: the view is kept whether or not anything changed
RunResult_always(tv) ==
    [tv |-> View(tv),
     new_changes |-> IF m_initial_run_complete
                     THEN calculate_changes(m_previous_rows, tv, modified_rows)
                     ELSE m_new_changes,
     previous_rows |-> tv]

\* the rows run() leaves in m_tv, m_new_changes and m_previous_rows
RunResult(tv) ==
    IF m_initial_run_complete
    THEN LET new_changes == calculate_changes(m_previous_rows, tv, modified_rows)
         IN  IF new_changes = <<>>
             THEN [tv |-> NoView, new_changes |-> new_changes,
                   previous_rows |-> m_previous_rows]
             ELSE [tv |-> View(tv), new_changes |-> new_changes, previous_rows |-> tv]
    ELSE [tv |-> View(tv), new_changes |-> m_new_changes, previous_rows |-> tv]

run(wants_background_updates) ==
    /\ wpc = "attached"
    /\ wpc' = "ran"
    /\ h_pre_handover' = m_tv_handover
    /\ IF ~m_target_results \/ (~m_have_callbacks /\ ~wants_background_updates)
       THEN /\ h_ran' = "skipped"
            /\ UNCHANGED <<m_tv, m_new_changes, m_previous_rows, h_old_rows, h_new_rows>>
       ELSE LET tv == Materialize(wtable, m_sort)
                r == RunResult(tv)
            IN  /\ m_tv' = r.tv
                /\ m_new_changes' = r.new_changes
                /\ m_previous_rows' = r.previous_rows
                /\ h_ran' = IF m_initial_run_complete THEN "diff" ELSE "initial"
                /\ h_old_rows' = m_previous_rows
                /\ h_new_rows' = tv
    /\ UNCHANGED <<envVars, linkVars, callHist, wver, wtable, modified_rows, m_sort, m_sg, m_query,
                   m_query_handover, m_changes, m_initial_run_complete, m_sg_version,
                   m_handed_over_table_version, m_tv_handover, targetVars,
                   registryVars, consumerVars, h_kind, h_inert, cycleHist, passHist>>

\* m_tv.outside_version(): the version of the table the view was made from
outside_version == wver

Packet(rows) ==
    [full |-> TRUE, rows |-> rows, version |-> wver,
     initial |-> ~m_initial_run_complete, kind |-> h_kind]

\* h_cycles after one more export: the number of exports pending, whether the
\* initial run is among them, the row list the first pending diff started from,
\* and the concatenation of each cycle's changeset computed from that row list
NoCycles == [n |-> 0, initial |-> FALSE, basis |-> <<>>, composed |-> <<>>]

CyclesAfterExport ==
    IF ~m_initial_run_complete
    THEN [n |-> h_cycles.n + 1, initial |-> TRUE, basis |-> m_tv.rows, composed |-> <<>>]
    ELSE LET basis == IF h_cycles.n = 0 THEN h_old_rows ELSE h_cycles.basis
         IN  [n |-> h_cycles.n + 1, initial |-> h_cycles.initial, basis |-> basis,
              composed |-> h_cycles.composed
                             \o calculate_changes(basis, m_tv.rows, modified_rows)]

\* variant of prepare_handover: the export is made whether or not run() left a view
prepare_handover_exporting ==
    /\ wpc = "ran"
    /\ wpc' = "handed"
    /\ m_sg_version' = wver
    /\ m_initial_run_complete' = TRUE
    /\ m_handed_over_table_version' = outside_version
    /\ m_tv_handover' = Packet(m_tv.rows)
    /\ m_changes' = m_changes \o m_new_changes
    /\ m_new_changes' = <<>>
    /\ m_tv' = NoView
    /\ h_cycles' = CyclesAfterExport
    /\ UNCHANGED <<envVars, linkVars, callHist, wver, wtable, modified_rows, m_sort, m_sg, m_query,
                   m_query_handover, m_previous_rows, targetVars, registryVars,
                   consumerVars, runHist, h_prev_tv, h_installed, h_pending,
                   h_passed, passHist>>

prepare_handover ==
    /\ wpc = "ran"
    /\ wpc' = "handed"
    /\ m_sg_version' = wver
    /\ IF ~m_tv.attached
       THEN UNCHANGED <<m_initial_run_complete, m_handed_over_table_version,
                        m_tv_handover, m_changes, m_new_changes, m_tv, h_cycles>>
       ELSE /\ m_initial_run_complete' = TRUE
            /\ m_handed_over_table_version' = outside_version
            /\ m_tv_handover' = Packet(m_tv.rows)
            /\ m_changes' = m_changes \o m_new_changes
            /\ m_new_changes' = <<>>
            /\ m_tv' = NoView
            /\ h_cycles' = CyclesAfterExport
    /\ UNCHANGED <<envVars, linkVars, callHist, wver, wtable, modified_rows, m_sort, m_sg, m_query,
                   m_query_handover, m_previous_rows, targetVars, registryVars,
                   consumerVars, runHist, h_prev_tv, h_installed, h_pending,
                   h_passed, passHist>>

\* detatch() ends the cycle: the change records and the cycle's history go.
\* *m_query with m_query null is undefined: the export may or may not leave a
\* packet
detatch ==
    /\ wpc = "handed"
    /\ wpc' = "idle"
    /\ m_query_handover' \in (IF m_query THEN {TRUE} ELSE BOOLEAN)
    /\ m_sg' = FALSE
    /\ m_query' = FALSE
    /\ modified_rows' = <<>>
    /\ h_kind' = "none" /\ h_ran' = "none" /\ h_inert' = FALSE
    /\ h_old_rows' = <<>> /\ h_new_rows' = <<>> /\ h_pre_handover' = NoPacket
    /\ UNCHANGED <<envVars, linkVars, callHist, wver, wtable, m_sort, m_tv, m_previous_rows,
                   m_new_changes, m_changes, m_initial_run_complete, m_sg_version,
                   m_handed_over_table_version, m_tv_handover, targetVars,
                   registryVars, consumerVars, cycleHist, passHist>>

Worker ==
    \/ AdvanceWorker
    \/ attach_to
    \/ run(lim.wants)
    \/ prepare_handover
    \/ detatch

\* ------------------------------------------------------- the callback registry
\* variant of Callback: a new entry starts at the version delivered last
Callback_current(fn, token) ==
    [fn |-> fn, token |-> token, delivered_version |-> m_delievered_table_version]

Callback(fn, token) == [fn |-> fn, token |-> token, delivered_version |-> npos]

Fns(callbacks) == {callbacks[k].fn : k \in 1..Len(callbacks)}

RECURSIVE next_token_from(_, _, _)
next_token_from(callbacks, k, token) ==
    IF k > Len(callbacks) THEN token
    ELSE next_token_from(callbacks, k + 1,
                         IF token <= callbacks[k].token
                         THEN callbacks[k].token + 1 ELSE token)

next_token == next_token_from(m_callbacks, 1, 0)

\* variant of push_back: the new entry is put before the others
push_front(callbacks, entry) == <<entry>> \o callbacks

\* m_callbacks.push_back(entry)
push_back(callbacks, entry) == Append(callbacks, entry)

\* add_callback verifies the caller's thread: the consumer thread calls it
\* between passes or from inside a callback
add_callback ==
    /\ used.adds < lim.adds
    /\ cpc \in {"idle", "in_fn"}
    /\ m_callbacks' = push_back(m_callbacks, Callback(used.adds + 1, next_token))
    /\ m_have_callbacks' = IF m_callback_index = npos THEN TRUE ELSE m_have_callbacks
    /\ h_issued' = Append(h_issued, next_token)
    /\ h_added' = IF cpc = "in_fn" THEN h_added \cup {used.adds + 1} ELSE h_added
    /\ used' = [used EXCEPT !.adds = @ + 1]
    /\ UNCHANGED <<table, ver, origin, changed, touched, cver, lim, linkVars, callHist, workerVars,
                   queryVars, targetVars, m_callback_index, consumerVars, runHist,
                   cycleHist, h_removed, h_reg, h_due, h_calls, h_fix, h_notified,
                   h_cleared>>

\* variants of CursorAfterRemove: one that moves the cursor back for a removal
\* anywhere, one that never moves it
CursorAfterRemove_anywhere(cursor, idx) ==
    IF cursor # npos THEN Dec(cursor) ELSE cursor

CursorAfterRemove_never(cursor, idx) == cursor

\* variant of CursorAfterRemove: the cursor moves back only for a removal below it
CursorAfterRemove_below(cursor, idx) ==
    IF cursor # npos /\ cursor > idx THEN Dec(cursor) ELSE cursor

\* the cursor after the entry at idx was found for removal
CursorAfterRemove(cursor, idx) ==
    IF cursor # npos /\ cursor >= idx THEN Dec(cursor) ELSE cursor

Erase(s, k) == SubSeq(s, 1, k - 1) \o SubSeq(s, k + 1, Len(s))

\* remove_callback may be called on any thread at any time; its body runs
\* under m_callback_mutex
remove_callback(token) ==
    LET found == {k \in 1..Len(m_callbacks) : m_callbacks[k].token = token}
    IN  /\ m_error # NoError \/ found # {}
        /\ IF found = {}
           THEN UNCHANGED <<registryVars, h_removed, h_fix, h_notified>>
           ELSE LET k == CHOOSE x \in found : \A y \in found : x <= y
                    fn == m_callbacks[k].fn
                IN  /\ m_callback_index' = CursorAfterRemove(m_callback_index, k - 1)
                    /\ m_callbacks' = Erase(m_callbacks, k)
                    /\ m_have_callbacks' = (Erase(m_callbacks, k) # <<>>)
                    /\ h_removed' = h_removed \cup {fn}
                    /\ h_notified' = h_notified \ {fn}
                    /\ h_fix' = IF cpc # "idle" /\ k = 1 /\ m_callback_index = 0
                                   /\ h_fix = 0
                                THEN 1 ELSE h_fix
        /\ UNCHANGED <<envVars, linkVars, callHist, workerVars, queryVars, targetVars, consumerVars,
                       runHist, cycleHist, h_issued, h_reg, h_due, h_calls, h_cleared,
                       h_added>>

\* ---------------------------------------------------------------- unregister
\* unregister may be called on any thread at any time; its body runs under
\* m_target_mutex
unregister ==
    /\ m_target_results' = FALSE
    /\ UNCHANGED <<envVars, linkVars, callHist, workerVars, queryVars,
                   m_delievered_table_version, m_error, target_tv, registryVars,
                   consumerVars, runHist, cycleHist, passHist>>

\* release_query is called once the target is unregistered (the assertion at
\* its head); the assignment to m_query is made under no lock
release_query ==
    /\ ~m_target_results
    /\ m_query' = FALSE
    /\ UNCHANGED <<envVars, linkVars, callHist, workerVars, m_sort, m_sg,
                   m_query_handover, m_tv, m_previous_rows, m_new_changes, m_changes,
                   m_initial_run_complete, m_sg_version, m_handed_over_table_version,
                   m_tv_handover, targetVars, registryVars, consumerVars, runHist,
                   cycleHist, passHist>>

\* ------------------------------------------------------------------- deliver
\* variants of DeliverOutcome: one that does not compare the versions, one that
\* does not verify the thread
DeliverOutcome_unversioned(on_thread, err) ==
    IF ~on_thread \/ ~m_target_results \/ (~m_initial_run_complete /\ err = NoError)
    THEN [latch |-> FALSE, install |-> FALSE, ret |-> FALSE]
    ELSE IF err # NoError
    THEN [latch |-> TRUE, install |-> FALSE, ret |-> m_have_callbacks]
    ELSE [latch |-> FALSE, install |-> m_tv_handover.full, ret |-> m_have_callbacks]

DeliverOutcome_any_thread(on_thread, err) ==
    IF ~m_target_results \/ (~m_initial_run_complete /\ err = NoError)
    THEN [latch |-> FALSE, install |-> FALSE, ret |-> FALSE]
    ELSE IF err # NoError
    THEN [latch |-> TRUE, install |-> FALSE, ret |-> m_have_callbacks]
    ELSE IF m_sg_version # cver
    THEN [latch |-> FALSE, install |-> FALSE, ret |-> FALSE]
    ELSE [latch |-> FALSE, install |-> m_tv_handover.full, ret |-> m_have_callbacks]

\* what deliver(sg, err) does when called on thread `on_thread`:
\* whether it latches err, whether it installs the view, what it returns
DeliverOutcome(on_thread, err) ==
    IF ~on_thread \/ ~m_target_results \/ (~m_initial_run_complete /\ err = NoError)
    THEN [latch |-> FALSE, install |-> FALSE, ret |-> FALSE]
    ELSE IF err # NoError
    THEN [latch |-> TRUE, install |-> FALSE, ret |-> m_have_callbacks]
    ELSE IF m_sg_version # cver
    THEN [latch |-> FALSE, install |-> FALSE, ret |-> FALSE]
    ELSE [latch |-> FALSE, install |-> m_tv_handover.full, ret |-> m_have_callbacks]

\* deliver, and the start of call_callbacks when it returned true
deliver(on_thread, err) ==
    LET out == DeliverOutcome(on_thread, err)
        error == IF out.latch THEN err ELSE m_error
        delivered == IF out.install THEN m_handed_over_table_version
                     ELSE m_delievered_table_version
    IN  /\ cpc = "idle"
        /\ err # NoError => used.errs < lim.errs
        /\ used' = IF err # NoError THEN [used EXCEPT !.errs = @ + 1] ELSE used
        /\ m_error' = error
        /\ m_delievered_table_version' = delivered
        /\ IF out.install
           THEN /\ target_tv' = View(m_tv_handover.rows)
                /\ m_tv_handover' = NoPacket
                /\ h_prev_tv' = target_tv
                /\ h_notified' = {}
                /\ h_cycles' = NoCycles
           ELSE UNCHANGED <<target_tv, m_tv_handover, h_prev_tv, h_notified, h_cycles>>
        /\ IF out.ret
           THEN /\ cpc' = "loop"
                /\ h_installed' = out.install
                /\ h_pending' = IF out.install THEN h_cycles ELSE NoCycles
                /\ h_reg' = Fns(m_callbacks)
                /\ h_due' = {m_callbacks[k].fn : k \in
                                {x \in 1..Len(m_callbacks) :
                                    \/ error # NoError
                                    \/ m_callbacks[x].delivered_version # delivered}}
           ELSE UNCHANGED <<cpc, h_installed, h_pending, h_reg, h_due>>
        /\ UNCHANGED <<table, ver, origin, changed, touched, cver, lim, linkVars, workerVars,
                       m_sort, m_sg, m_query, m_query_handover, m_tv, m_previous_rows,
                       m_new_changes, m_changes, m_initial_run_complete, m_sg_version,
                       m_handed_over_table_version, m_target_results, registryVars,
                       cur_fn, runHist, h_passed, h_issued, h_removed, h_calls, h_fix,
                       h_cleared, h_added>>

\* ------------------------------------------------------------ call_callbacks
\* the indices next_callback's loop may stop at, from index start onwards
DueFrom(start) ==
    {k \in start..(Len(m_callbacks) - 1) :
        \/ m_error # NoError
        \/ m_callbacks[k + 1].delivered_version # m_delievered_table_version}

Min(S) == CHOOSE x \in S : \A y \in S : x <= y

next_callback ==
    LET due == DueFrom(Inc(m_callback_index))
    IN  /\ cpc = "loop"
        /\ IF due # {}
           THEN /\ m_callback_index' = Min(due)
                /\ m_callbacks' = [m_callbacks EXCEPT ![Min(due) + 1].delivered_version =
                                        m_delievered_table_version]
                /\ cur_fn' = m_callbacks[Min(due) + 1].fn
                /\ cpc' = "fetched"
           ELSE /\ m_callback_index' = npos
                /\ m_callbacks' = m_callbacks
                /\ cur_fn' = 0
                /\ cpc' = "tail"
        /\ UNCHANGED <<envVars, linkVars, callHist, workerVars, queryVars, targetVars, m_have_callbacks,
                       runHist, cycleHist, passHist>>

\* fn(m_changes, m_error): the call, made with no lock held
invoke ==
    /\ cpc = "fetched"
    /\ cpc' = "in_fn"
    /\ h_passed' = m_changes
    /\ h_calls' = Append(h_calls,
                         [fn |-> cur_fn, removed |-> cur_fn \in h_removed,
                          renotify |-> (cur_fn \in h_notified /\ m_error = NoError),
                          unregistered |-> ~m_target_results])
    /\ h_notified' = h_notified \cup {cur_fn}
    /\ h_fix' = IF h_fix = 1 /\ cur_fn \in h_due THEN 2 ELSE h_fix
    /\ UNCHANGED <<envVars, linkVars, callHist, workerVars, queryVars, targetVars, registryVars, cur_fn,
                   runHist, h_cycles, h_prev_tv, h_installed, h_pending, h_issued,
                   h_removed, h_reg, h_due, h_cleared, h_added>>

return ==
    /\ cpc = "in_fn"
    /\ cpc' = "loop"
    /\ cur_fn' = 0
    /\ h_passed' = <<>>
    /\ UNCHANGED <<envVars, linkVars, callHist, workerVars, queryVars, targetVars, registryVars,
                   runHist, h_cycles, h_prev_tv, h_installed, h_pending, passHist>>

\* variant of CallbacksAfterPass: the registry is kept
CallbacksAfterPass_kept == m_callbacks

\* the registry call_callbacks leaves once the loop has ended
CallbacksAfterPass == IF m_error # NoError THEN <<>> ELSE m_callbacks

finish_callbacks ==
    /\ cpc = "tail"
    /\ cpc' = "idle"
    /\ m_callbacks' = CallbacksAfterPass
    /\ m_changes' = <<>>
    /\ h_cleared' = IF m_error # NoError THEN used.adds ELSE h_cleared
    /\ h_notified' = IF m_error # NoError THEN {} ELSE h_notified
    /\ h_reg' = {} /\ h_due' = {} /\ h_calls' = <<>> /\ h_fix' = 0 /\ h_added' = {}
    /\ h_installed' = FALSE /\ h_pending' = NoCycles
    /\ UNCHANGED <<envVars, linkVars, callHist, workerVars, m_sort, m_sg, m_query, m_query_handover, m_tv,
                   m_previous_rows, m_new_changes, m_initial_run_complete, m_sg_version,
                   m_handed_over_table_version, m_tv_handover, targetVars,
                   m_callback_index, m_have_callbacks, cur_fn, runHist, h_cycles,
                   h_prev_tv, h_passed, h_issued, h_removed>>

call_callbacks ==
    \/ next_callback
    \/ invoke
    \/ return
    \/ finish_callbacks

\* ------------------------------------------------------------- specifications
Sorts == {"none", "asc", "desc"}

NoneUsed == [ops |-> 0, adds |-> 0, errs |-> 0]

\* no call of deliver made yet
NoDelivery == [called |-> FALSE]

\* no call of row_did_change made on its own
NoProbe == [called |-> FALSE]

\* the state AsyncQuery's constructor leaves, over a root table holding tab
ConstructedQuery(tab, sort, budget) ==
    /\ table = tab /\ ver = 0 /\ cver = 0
    /\ origin = [k \in 1..Len(tab) |-> k - 1]
    /\ changed = {} /\ touched = FALSE
    /\ lim = budget /\ used = NoneUsed
    /\ wpc = "idle" /\ wver = 0 /\ wtable = tab /\ modified_rows = <<>>
    /\ m_sort = sort /\ m_sg = FALSE /\ m_query = FALSE /\ m_query_handover = TRUE
    /\ m_tv = NoView /\ m_previous_rows = <<>>
    /\ m_new_changes = <<>> /\ m_changes = <<>>
    /\ m_initial_run_complete = FALSE /\ m_sg_version = 0
    /\ m_handed_over_table_version = npos /\ m_delievered_table_version = npos
    /\ m_tv_handover = NoPacket /\ m_target_results = TRUE /\ m_error = NoError
    /\ m_callbacks = <<>> /\ m_callback_index = npos /\ m_have_callbacks = FALSE
    /\ cpc = "idle" /\ cur_fn = 0 /\ target_tv = NoView
    /\ h_kind = "none" /\ h_old_rows = <<>> /\ h_new_rows = <<>> /\ h_ran = "none"
    /\ h_pre_handover = NoPacket /\ h_inert = FALSE
    /\ h_deliver = NoDelivery
    /\ h_cycles = NoCycles /\ h_prev_tv = NoView /\ h_installed = FALSE
    /\ h_pending = NoCycles /\ h_passed = <<>>
    /\ h_issued = <<>> /\ h_removed = {} /\ h_reg = {} /\ h_due = {}
    /\ h_calls = <<>> /\ h_fix = 0 /\ h_notified = {} /\ h_cleared = -1
    /\ h_added = {}

\* the same over the tests' IntObject table
Constructed(tab, sort, budget) ==
    /\ ConstructedQuery(tab, sort, budget)
    /\ group = IntObjectGroup
    /\ probe = NoProbe

Deliver ==
    /\ \E on_thread \in BOOLEAN, err \in {NoError} \cup Errors : deliver(on_thread, err)
    /\ UNCHANGED callHist

\* what a call of deliver found, and what it left behind
Delivery(on_thread, err) ==
    [called |-> TRUE, on_thread |-> on_thread, err |-> err,
     target |-> m_target_results, initial |-> m_initial_run_complete,
     stale |-> (m_sg_version # cver), packet |-> m_tv_handover.full,
     ret |-> (cpc' = "loop"),
     kept |-> (<<m_tv_handover, target_tv, m_delievered_table_version, m_changes,
                 m_error>>'
                 = <<m_tv_handover, target_tv, m_delievered_table_version, m_changes,
                     m_error>>)]

DeliverObserved ==
    \E on_thread \in BOOLEAN, err \in {NoError} \cup (1..ErrKinds) :
        /\ deliver(on_thread, err)
        /\ h_deliver' = Delivery(on_thread, err)

RemoveCallback == \E token \in 0..MaxAdds : remove_callback(token)

\* The pipeline: commits that create and write objects, the worker's cycles,
\* and a consumer that registers one callback and keeps it.
Init ==
    \E tab \in Tables(1) : \E sort \in {"none", "desc"} : \E wants \in BOOLEAN :
        Constructed(tab, sort, [ops |-> PipeOps, adds |-> 1, errs |-> 0, wants |-> wants])

Next == WriteCommit \/ Worker \/ Refresh \/ Deliver \/ call_callbacks \/ add_callback

Spec == Init /\ [][Next]_vars

\* The pipeline of a target that wants no background updates, whose consumer
\* also removes the callback it registered.
CancelInit ==
    \E tab \in Tables(1) :
        Constructed(tab, "none", [ops |-> PipeOps, adds |-> 1, errs |-> 0, wants |-> FALSE])

CancelNext == Next \/ RemoveCallback

SpecCancel == CancelInit /\ [][CancelNext]_vars

\* The worker alone: commits and cycles over a table that has room for one
\* more row.
WorkerInit ==
    \E n \in 0..(MaxRows - 1) : \E tab \in Tables(n) : \E sort \in Sorts : \E wants \in BOOLEAN :
        Constructed(tab, sort, [ops |-> MaxOps, adds |-> 0, errs |-> 0, wants |-> wants])

WorkerNext == Commit \/ Worker

SpecWorker == WorkerInit /\ [][WorkerNext]_vars

\* The registry: a database nobody writes to, the worker's cycles, and callbacks
\* added and removed between and during the consumer's passes.
RegistryInit ==
    Constructed(<<1>>, "none", [ops |-> 0, adds |-> MaxAdds, errs |-> MaxErr, wants |-> TRUE])

RegistryNext == Worker \/ Deliver \/ call_callbacks \/ add_callback \/ RemoveCallback

SpecRegistry == RegistryInit /\ [][RegistryNext]_vars

\* The pipeline kept running: the coordinator goes on running cycles, the
\* consumer thread goes on advancing to the latest version, calling deliver and
\* finishing the passes it began; the commits are finitely many.
LiveInit ==
    \E sort \in {"none", "desc"} : \E wants \in BOOLEAN :
        Constructed(<<1>>, sort, [ops |-> LiveOps, adds |-> 1, errs |-> 0, wants |-> wants])

\* run and prepare_handover are enabled exactly when the worker stands before
\* them and always move it on, so weak fairness of each is that the worker does
\* not stand there forever
Fairness ==
    /\ WF_vars(AdvanceWorker)
    /\ WF_vars(attach_to)
    /\ []<>(wpc # "attached")
    /\ []<>(wpc # "ran")
    /\ WF_vars(detatch)
    /\ WF_vars(Refresh)
    /\ WF_vars(deliver(TRUE, NoError) /\ UNCHANGED callHist)
    /\ WF_vars(call_callbacks)

SpecLive == LiveInit /\ [][Next]_vars /\ Fairness

\* Release: the worker's cycles over a target that is unregistered, and a query
\* that is released, at any time.
ReleaseNext == Worker \/ unregister \/ release_query

SpecRelease == WorkerInit /\ [][ReleaseNext]_vars

\* Deliveries: commits, the worker's cycles, a consumer with one callback whose
\* deliveries are observed, errors handed to deliver, and a target that may be
\* unregistered at any time.
DeliveryInit ==
    Constructed(<<1>>, "none",
                [ops |-> DeliveryOps, adds |-> 1, errs |-> ErrKinds, wants |-> TRUE])

DeliveryNext ==
    \/ WriteCommit \/ Worker \/ Refresh \/ DeliverObserved \/ call_callbacks
    \/ add_callback \/ unregister

SpecDelivery == DeliveryInit /\ [][DeliveryNext]_vars

\* Links: row_did_change on its own, over a root table whose columns are
\* integer, link and link-list columns pointing to a second table of integers.
LinkRowSet == 0..(LinkRows - 1)

\* the link lists over the target's rows, each row at most once, in row order
LinkLists ==
    UNION {{l \in [1..n -> LinkRowSet] : \A i, j \in 1..n : i < j => l[i] < l[j]} :
              n \in 0..LinkRows}

CellsOf(type) ==
    IF type = "link" THEN {<<r>> : r \in LinkRowSet}
    ELSE IF type = "list" THEN LinkLists
    ELSE {<<>>}

LinkGroups ==
    UNION {{<<[cols |-> [c \in 1..LinkCols |-> Column(types[c], 1)], links |-> links],
              [cols |-> <<Column("int", 0)>>, links |-> [r \in 1..LinkRows |-> <<<<>>>>]]>> :
               links \in [1..LinkRows -> {cells \in [1..LinkCols -> LinkLists] :
                                             \A c \in 1..LinkCols : cells[c] \in CellsOf(types[c])}]} :
              types \in [1..LinkCols -> {"int", "link", "list"}]}

\* change records that move no row, for the root table alone or for both tables
LinkChanges ==
    UNION {[1..n -> {[moves |-> <<>>, changed |-> c] : c \in SUBSET LinkRowSet}] : n \in 1..2}

\* the column paths a callback may ask to watch: one column of the root table
WatchedPaths == SUBSET {<<c>> : c \in 0..(LinkCols - 1)}

LinksInit ==
    /\ ConstructedQuery([r \in 1..LinkRows |-> 1], "none",
                        [ops |-> 0, adds |-> 0, errs |-> 0, wants |-> TRUE])
    /\ group \in LinkGroups
    /\ \E modified \in LinkChanges, watched \in WatchedPaths :
          probe = [called |-> FALSE, modified |-> modified, watched |-> watched]

\* calculate_changes asks whether root row idx changed
Probe(idx) ==
    /\ ~probe.called
    /\ probe' = [called |-> TRUE, modified |-> probe.modified, watched |-> probe.watched,
                 idx |-> idx, result |-> row_did_change(0, idx, probe.modified, 0)]
    /\ UNCHANGED <<envVars, group, workerVars, queryVars, targetVars, registryVars,
                   consumerVars, runHist, cycleHist, passHist, callHist>>

LinksNext == \E idx \in LinkRowSet : Probe(idx)

SpecLinks == LinksInit /\ [][LinksNext]_vars

\* ------------------------------------------- properties: the callback registry
\* the number of calls of f made so far in the current pass
CallsOf(f) == Cardinality({k \in 1..Len(h_calls) : h_calls[k].fn = f})

\* C1: within one call_callbacks pass, every callback that was registered when
\* the pass's deliver ran is invoked at most once, whatever add_callback and
\* remove_callback calls are made while the pass walks the registry.
C1_AtMostOncePerPass == \A f \in h_reg : CallsOf(f) <= 1

\* a pass has ended its loop after two calls, with one callback removed and
\* one added while it ran
C1_Witness ==
    /\ cpc = "tail"
    /\ Len(h_calls) >= 2
    /\ h_reg \ Fns(m_callbacks) # {}
    /\ Fns(m_callbacks) \ h_reg # {}

\* C2: when the loop of a pass has ended, every callback that was due at the
\* pass's deliver has been invoked in the pass unless it was itself removed;
\* this includes a pass in which the entry at index 0 was removed while the
\* cursor was 0.
C2_NoSkipUnderRemove ==
    cpc = "tail" => \A f \in h_due : f \in h_removed \/ CallsOf(f) >= 1

\* a pass has ended in which index 0 was removed at cursor 0 and a callback
\* due for the delivery was invoked afterwards
C2_Witness == cpc = "tail" /\ h_fix = 2

\* C3: a callback function is never invoked once the remove_callback of its
\* token has returned.
C3_CancellationImmediate == \A k \in 1..Len(h_calls) : ~h_calls[k].removed

\* C4: no token returned by add_callback is returned again by a later
\* add_callback on the same query.
C4_TokensNeverReused ==
    \A i, j \in 1..Len(h_issued) : i # j => h_issued[i] # h_issued[j]

\* C5, as the specification states it: when the loop of a pass that delivers
\* an error has ended, every callback registered at its deliver has been
\* invoked exactly once.
C5_AllInvokedExactlyOnce ==
    (cpc = "tail" /\ m_error # NoError) => \A f \in h_reg : CallsOf(f) = 1

\* C5: when the loop of a pass that delivers an error has ended, every callback
\* registered at its deliver has been invoked at most once, and exactly once
\* unless its remove_callback was called; once the pass is over the registry is
\* empty until the next add_callback; and no callback registered before the
\* pass ended is invoked by a later pass.
C5_ErrorLatching ==
    /\ (cpc = "tail" /\ m_error # NoError) =>
           \A f \in h_reg : CallsOf(f) <= 1 /\ (f \notin h_removed => CallsOf(f) = 1)
    /\ (cpc = "idle" /\ h_cleared = used.adds) => m_callbacks = <<>>
    /\ h_cleared >= 0 => \A k \in 1..Len(h_calls) : h_calls[k].fn > h_cleared

\* a second error pass: the registry was cleared by an error pass, a callback
\* was added since, and the loop of the next pass has ended after calling it
C5_Witness ==
    /\ cpc = "tail"
    /\ m_error # NoError
    /\ h_cleared >= 1
    /\ Len(h_calls) >= 1

\* ---------------------------------------------------- properties: changesets
\* Applying changes to the row list old gives the row list new: deletes and
\* moves take rows out of old at their old positions, inserts and moves fill
\* their new positions of new, the rows left keep their order in the positions
\* left; every position named is one of its list, and is named once.
Roundtrip(changes, old, new) ==
    LET C == {changes[k] : k \in 1..Len(changes)}
        structural(c) == c.old # c.new
        dels == {c.old : c \in {x \in C : x.old # npos /\ x.new = npos}}
        ins == {c.new : c \in {x \in C : x.old = npos /\ x.new # npos}}
        mvs == {c \in C : c.old # npos /\ c.new # npos /\ c.old # c.new}
        gone == dels \cup {c.old : c \in mvs}
        filled == ins \cup {c.new : c \in mvs}
        Kept[n \in 0..Len(old)] ==
            IF n = 0 THEN <<>>
            ELSE IF (n - 1) \in gone THEN Kept[n - 1] ELSE Append(Kept[n - 1], old[n])
        rank(p) == Cardinality({q \in 0..p : q \notin filled})
        row(p) == IF p \in ins THEN new[p + 1]
                  ELSE IF \E c \in mvs : c.new = p
                       THEN old[(CHOOSE c \in mvs : c.new = p).old + 1]
                  ELSE Kept[Len(old)][rank(p)]
    IN  /\ \A c \in C : /\ c.old # npos => c.old < Len(old)
                        /\ c.new # npos => c.new < Len(new)
        /\ \A i, j \in 1..Len(changes) :
              (i # j /\ structural(changes[i]) /\ structural(changes[j])) =>
                  /\ changes[i].old = changes[j].old => changes[i].old = npos
                  /\ changes[i].new = changes[j].new => changes[i].new = npos
        /\ Len(Kept[Len(old)]) + Cardinality(filled) = Len(new)
        /\ \A p \in 0..(Len(new) - 1) : row(p) = new[p + 1]

\* the change records of the cycle hold no moved row
NoMoves == \A k \in 1..Len(modified_rows) : DOMAIN modified_rows[k].moves = {}

\* C6: for an unsorted query, while a callback runs in the pass that follows a
\* deliver that replaced the target's view, applying the changeset it was
\* passed to the rows of the replaced view gives the rows of the installed one.
C6_ChangesetMatchesView ==
    (cpc = "in_fn" /\ h_installed /\ h_prev_tv.attached /\ m_sort = "none") =>
        Roundtrip(h_passed, h_prev_tv.rows, target_tv.rows)

\* C7: while a callback runs in the pass that follows a deliver that installed
\* a view two diffing cycles had exported since the last install, the changeset
\* it was passed is the concatenation of the two cycles' changesets, each
\* computed from the row list the first of them started from.
C7_ChangesetsCompose ==
    (cpc = "in_fn" /\ h_installed /\ h_pending.n = 2 /\ ~h_pending.initial) =>
        h_passed = h_pending.composed

\* C8: after a run() that diffed, under change records that move no row,
\* applying the changeset it computed to the row list it started from gives the
\* row list it materialized, for sorted and unsorted views alike.
C8_DiffRoundtrip ==
    (wpc = "ran" /\ h_ran = "diff" /\ NoMoves) =>
        Roundtrip(m_new_changes, h_old_rows, h_new_rows)

\* C9: for a sorted query, a run() over commits that only gave matching rows
\* another index in the table, the order of the matching objects kept, computes
\* an empty changeset and discards the view.
C9_RelocationIsSilent ==
    (wpc = "ran" /\ h_ran = "diff" /\ h_kind = "reloc" /\ m_sort # "none") =>
        (m_new_changes = <<>> /\ ~m_tv.attached)

\* C10: after the initial run, a run() over commits that inserted, wrote or
\* deleted only non-matching rows and moved no matching row computes an empty
\* changeset and discards the view, and the prepare_handover that follows
\* exports nothing.
C10_QuietCommitIsSilent ==
    /\ (wpc = "ran" /\ h_ran = "diff" /\ h_kind = "quiet") =>
           (m_new_changes = <<>> /\ ~m_tv.attached)
    /\ (wpc = "handed" /\ h_ran = "diff" /\ h_kind = "quiet") =>
           m_tv_handover = h_pre_handover

\* the rows the change records of the cycle name as written
ChangedRows == IF modified_rows = <<>> THEN {} ELSE modified_rows[1].changed

Rows(view) == {view[k] : k \in 1..Len(view)}

\* C11: after a run() that diffed, under change records that move no row: if
\* the new row list is the old one with one row added at position p, the other
\* rows not written, the changeset is the single entry {npos, p}; if it is the
\* old one with the row at position p taken out, the changeset is the single
\* entry {p, npos}; for sorted and unsorted views alike.
C11_SingleRowChange ==
    (wpc = "ran" /\ h_ran = "diff" /\ NoMoves) =>
        /\ \A p \in 0..(Len(h_new_rows) - 1) :
              (Erase(h_new_rows, p + 1) = h_old_rows
                  /\ Rows(h_old_rows) \cap ChangedRows = {})
              => m_new_changes = <<Change(npos, p)>>
        /\ \A p \in 0..(Len(h_old_rows) - 1) :
              (Erase(h_old_rows, p + 1) = h_new_rows
                  /\ Rows(h_new_rows) \cap ChangedRows = {})
              => m_new_changes = <<Change(p, npos)>>

\* the entries of a changeset that name old position p
EntriesAt(changes, p) == {k \in 1..Len(changes) : changes[k].old = p}

\* C12: after a run() that diffed, under change records that move no row: a
\* row that is at the same position p of the old and the new row list has
\* exactly one entry, {p, p}, and the view is kept for export, if the change
\* record names it as written, and has no entry if it does not.
C12_ModificationInPlace ==
    (wpc = "ran" /\ h_ran = "diff" /\ NoMoves) =>
        \A p \in 0..(Len(h_old_rows) - 1) :
            (p < Len(h_new_rows) /\ h_new_rows[p + 1] = h_old_rows[p + 1]) =>
                IF h_old_rows[p + 1] \in ChangedRows
                THEN /\ \E k \in 1..Len(m_new_changes) :
                            /\ EntriesAt(m_new_changes, p) = {k}
                            /\ m_new_changes[k] = Change(p, p)
                     /\ m_tv.attached
                ELSE EntriesAt(m_new_changes, p) = {}

\* Chains: row_did_change on its own, over one table whose only column is a
\* link or link-list column pointing back into the table. Row r points to row
\* r + 1 and the last row points to some row of the chain, which closes a
\* cycle; in the knot each of two rows lists both rows.
ChainRowSet == 0..(ChainRows - 1)

ChainGroups ==
    {<<[cols |-> <<Column(type, 0)>>,
        links |-> [r \in 1..ChainRows |-> <<<<IF r < ChainRows THEN r ELSE back>>>>]]>> :
        type \in {"link", "list"}, back \in ChainRowSet}

KnotGroup ==
    <<[cols |-> <<Column("list", 0)>>, links |-> <<<<<<0, 1>>>>, <<<<0, 1>>>>>>]>>

RowsOf(g) == 0..(Len(g[1].links) - 1)

\* change records that move no row and modify at most one row of the table
ChainChanges(g) ==
    {<<[moves |-> <<>>, changed |-> c]>> : c \in {{}} \cup {{r} : r \in RowsOf(g)}}

ChainInit ==
    /\ ConstructedQuery([r \in 1..ChainRows |-> 1], "none",
                        [ops |-> 0, adds |-> 0, errs |-> 0, wants |-> TRUE])
    /\ group \in ChainGroups \cup {KnotGroup}
    /\ \E modified \in ChainChanges(group) :
          probe = [called |-> FALSE, modified |-> modified, watched |-> {}]

ChainNext == \E idx \in ChainRowSet : idx \in RowsOf(group) /\ Probe(idx)

SpecChain == ChainInit /\ [][ChainNext]_vars

\* ------------------------------------------------- properties: followed links
\* the rows a column path leads to from the rows `rows` of the table at
\* table_ndx, and the table they are in; a path through an integer column
\* leads nowhere
RECURSIVE PathEnd(_, _, _)
PathEnd(path, table_ndx, rows) ==
    IF path = <<>> THEN [table_ndx |-> table_ndx, rows |-> rows]
    ELSE LET col == group[table_ndx + 1].cols[path[1] + 1]
         IN  IF col.type = "int" THEN [table_ndx |-> table_ndx, rows |-> {}]
             ELSE PathEnd(Tail(path), col.target,
                          UNION {{get_linklist(table_ndx, path[1], r)[j] :
                                     j \in 1..Len(get_linklist(table_ndx, path[1], r))} :
                                 r \in rows})

ChangedIn(table_ndx, modified) ==
    IF table_ndx < Len(modified) THEN modified[table_ndx + 1].changed ELSE {}

\* root row idx is modified by the rule of watched paths
ModifiedByRule(idx, modified, watched) ==
    \/ idx \in ChangedIn(0, modified)
    \/ \E path \in watched :
          PathEnd(path, 0, {idx}).rows
              \cap ChangedIn(PathEnd(path, 0, {idx}).table_ndx, modified) # {}

\* C13: row_did_change reports a root row as modified exactly when the row is
\* in the root table's modified set or one of the watched column paths leads
\* from it to a row in the modified set of the path's last table.
C13_DeepPathModification ==
    probe.called =>
        (probe.result <=> ModifiedByRule(probe.idx, probe.modified, probe.watched))

\* --------------------------------------------------- properties: deliveries
\* the last deliver was called on the consumer thread with a live target, the
\* initial run complete and no error, at a consumer version other than the
\* query's
StaleDelivery ==
    /\ h_deliver.called
    /\ h_deliver.on_thread /\ h_deliver.target /\ h_deliver.initial
    /\ h_deliver.err = NoError
    /\ h_deliver.stale

\* C14: a deliver that finds the consumer's version different from the query's
\* returns false and leaves the handover packet, the target's view, the
\* delivered version and the accumulated changeset as they were.
C14_StaleHandoverKept ==
    StaleDelivery => (~h_deliver.ret /\ h_deliver.kept)

\* a stale deliver found a packet, the packet is still there and the versions
\* have come to match
C14_Witness ==
    /\ StaleDelivery /\ h_deliver.packet
    /\ m_tv_handover.full /\ m_sg_version = cver /\ m_target_results

\* the last deliver was called on another thread or after the target was cleared
RejectedDelivery ==
    /\ h_deliver.called
    /\ (~h_deliver.on_thread \/ ~h_deliver.target)

\* C16: a deliver called on a thread other than the consumer's, or after the
\* target was cleared, returns false, latches no error, imports no packet and
\* leaves the delivered version as it was.
C16_RejectedDeliveryChangesNothing ==
    RejectedDelivery => (~h_deliver.ret /\ h_deliver.kept)

\* a deliver carrying an error was rejected for its thread alone, with a packet
\* waiting at the consumer's version and a callback registered
C16_Witness ==
    /\ RejectedDelivery /\ ~h_deliver.on_thread /\ h_deliver.target
    /\ h_deliver.err # NoError /\ h_deliver.packet /\ ~h_deliver.stale
    /\ m_have_callbacks /\ m_error = NoError

\* C17: once unregister has returned, every deliver returns false and touches
\* nothing, and no callback of the query is invoked, not even by a
\* call_callbacks whose deliver returned true before unregister ran.
C17_UnregisterStopsCallbacks ==
    /\ (h_deliver.called /\ ~h_deliver.target) => (~h_deliver.ret /\ h_deliver.kept)
    /\ \A k \in 1..Len(h_calls) : ~h_calls[k].unregistered

\* this step is a deliver that imports the handover packet
Installs == m_tv_handover.full /\ ~m_tv_handover'.full

\* C18: the delivered version never decreases, and a deliver that installs a
\* view raises it. Until the first view is installed the field holds the
\* sentinel -1, which stands for no version.
C18_DeliveredVersionMonotone ==
    [][/\ m_delievered_table_version # npos =>
            /\ m_delievered_table_version' # npos
            /\ m_delievered_table_version' >= m_delievered_table_version
       /\ Installs =>
            /\ m_delievered_table_version' # npos
            /\ \/ m_delievered_table_version = npos
               \/ m_delievered_table_version' > m_delievered_table_version]_vars

\* a second view has been installed and the callback notified of it
C18_Witness ==
    /\ h_prev_tv.attached /\ target_tv.attached
    /\ m_delievered_table_version # npos /\ m_delievered_table_version > 0
    /\ h_notified # {}

\* ------------------------------------------------------- properties: errors
\* C19: once deliver has stored an error, no step changes or clears it.
C19_ErrorWriteOnce ==
    [][m_error # NoError => m_error' = m_error]_vars

\* C20: in a cycle that began after an error was latched, run() does not
\* execute the query or compute a changeset and prepare_handover exports no
\* view; and no deliver installs a view once an error is latched.
C20_InertAfterError ==
    [][/\ h_inert =>
            /\ h_ran' \in {"none", "skipped"}
            /\ ~m_tv'.attached
            /\ (m_tv_handover' = m_tv_handover \/ ~m_tv_handover'.full)
       /\ m_error # NoError => ~Installs]_vars

\* --------------------------------------------------- properties: liveness
\* the target holds the view of the latest commit and every registered callback
\* has been handed the delivered version
Delivered ==
    /\ target_tv = View(Materialize(table, m_sort))
    /\ \A k \in 1..Len(m_callbacks) :
            m_callbacks[k].delivered_version = m_delievered_table_version

\* C15: with the coordinator running cycles and scheduling deliver, the target
\* alive and a callback registered, once the commits have stopped the view of
\* the last commit is installed and every registered callback invoked, and it
\* stays so; a delivery skipped as stale does not prevent it.
C15_EventualDelivery ==
    <>[](m_callbacks # <<>> => Delivered)

\* after the last commit the consumer holds a second view, that of the latest
\* version, and the callback has been invoked for it
C15_Witness ==
    /\ used.ops = LiveOps /\ lim.ops = LiveOps /\ cver = ver
    /\ m_callbacks # <<>> /\ Delivered
    /\ h_prev_tv.attached /\ target_tv # h_prev_tv
    /\ h_notified = Fns(m_callbacks)
    /\ cpc = "idle"

\* ------------------------------------------- properties: the handover state
\* C21: after every deliver that installs a view, m_previous_rows is as long as
\* the view just installed, also when the worker has begun its next cycle.
C21_PreviousRowsMatchInstalled ==
    [][Installs => Len(m_previous_rows') = Len(target_tv'.rows)]_vars

C23_PacketsConsumedOnce ==
    [][/\ (wpc = "ran" /\ wpc' = "handed" /\ m_tv.attached) => ~m_tv_handover.full
       /\ Installs => target_tv' = View(m_tv_handover.rows)
       /\ (wpc = "handed" /\ wpc' = "idle") => ~m_query_handover
       /\ (wpc = "advanced" /\ wpc' = "attached") => m_query_handover]_vars

\* -------------------------------------------------- properties: data races
\* the worker's next step is the append to m_changes in prepare_handover, made
\* under the coordinator's lock that also guards deliver
AppendsChanges == wpc = "ran" /\ m_tv.attached

\* the consumer's next step is the copy of m_changes made for fn(m_changes,
\* m_error), or m_changes.clear(): call_callbacks takes neither that lock nor
\* m_target_mutex
ReadsChanges == cpc = "fetched"
ClearsChanges == cpc = "tail"

\* C24: m_changes is never accessed by two threads at once: in no state is the
\* worker about to append to it while call_callbacks is about to read or clear
\* it.
C24_ChangesetNotShared ==
    ~(AppendsChanges /\ (ReadsChanges \/ ClearsChanges))

\* the worker's next step reads or writes m_query under no lock: attach_to
\* assigns it, detatch exports *m_query and resets it
UsesQuery == wpc \in {"advanced", "handed"}

\* release_query may be called now, from any thread
ReleasesQuery == ~m_target_results

\* C25: m_query is never accessed by two threads at once: in no state may
\* release_query be called while the worker is about to use m_query.
C25_QueryNotShared == ~(ReleasesQuery /\ UsesQuery)

\* ------------------------------------------------ properties: bounded descent
\* the rows of the chain's table that are at most n hops from the rows `rows`
RECURSIVE WithinHops(_, _)
WithinHops(rows, n) ==
    IF n = 0 THEN rows
    ELSE WithinHops(rows \cup UNION {{get_linklist(0, 0, r)[j] :
                                         j \in 1..Len(get_linklist(0, 0, r))} : r \in rows},
                    n - 1)

\* C26: over a link graph with cycles row_did_change returns, and it reports
\* the row as modified exactly when a modified row is at most 16 hops from it:
\* a modified row that is only reached by more than 16 hops is not reported.
C26_BoundedTraversal ==
    probe.called =>
        (probe.result <=>
            WithinHops({probe.idx}, 16) \cap probe.modified[1].changed # {})

\* a modified row is 17 hops along the cycle from the row asked about
C26_Witness ==
    /\ probe.called /\ ~probe.result
    /\ WithinHops({probe.idx}, 17) \cap probe.modified[1].changed # {}
    /\ WithinHops({probe.idx}, 16) \cap probe.modified[1].changed = {}

\* -------------------------------------------- properties: handover of no view
HandoverWithoutView == wpc = "ran" /\ wpc' = "handed" /\ ~m_tv.attached

DeliverReachesAssertion == cpc = "idle" /\ m_target_results /\ m_initial_run_complete

\* C28: whenever deliver, called with no error while the target is alive and
\* the initial run is complete, reaches its assertion, no query handover
\* packet is pending.
C28_NoQueryPacketAtDelivery == DeliverReachesAssertion => ~m_query_handover

\* --------------------------------------- properties: the have-callbacks flag
\* C29: between passes, when deliver may be called and returns the flag,
\* m_have_callbacks is true exactly when the registry holds an entry.
C29_FlagMatchesRegistry == cpc = "idle" => (m_have_callbacks <=> m_callbacks # <<>>)

\* ------------------------------------ properties: the basis of the next diff
\* C30: after every run() that executed the query, m_previous_rows is the row
\* list of the view it materialized, also when the changeset it computed is
\* empty.
C30_PreviousRowsAreLatest ==
    (wpc = "ran" /\ h_ran \in {"initial", "diff"}) => m_previous_rows = h_new_rows

\* ---------------------------------------------------- properties: the cursor
\* C31: in every state, whatever next_callback, add_callback and
\* remove_callback calls were made, m_callback_index is npos or an index of
\* m_callbacks, and it is npos when m_callbacks is empty.
C31_CursorInvariant ==
    /\ m_callback_index = npos \/ m_callback_index < Len(m_callbacks)
    /\ m_callbacks = <<>> => m_callback_index = npos

\* the entry under the cursor was removed while its callback ran, and the
\* cursor stands on the entry before it
C31_Witness ==
    /\ cpc = "in_fn" /\ cur_fn \in h_removed
    /\ m_callback_index # npos
    /\ m_callback_index = Len(m_callbacks) - 1

\* ------------------------------------------ properties: the installed version
\* C32: every view deliver installs was exported by a cycle whose snapshot had
\* the version the consumer's snapshot has at that deliver.
C32_InstalledAtExportVersion ==
    [][Installs => m_handed_over_table_version = cver]_vars

\* ------------------------------------- properties: callbacks added in a pass
\* C33 as stated: when the loop of a pass has ended, every callback that was
\* added from inside a callback of the pass has been invoked exactly once in it.
C33_AddedInPassInvokedOnce ==
    cpc = "tail" => \A f \in h_added : CallsOf(f) = 1

\* C33: a callback added from inside a callback of a pass is invoked at most
\* once in the pass, and exactly once by the time the pass's loop has ended
\* unless its remove_callback was called; the pass makes no more calls than
\* there are callbacks registered at its deliver or added during it, so it
\* ends when finitely many are added.
C33_AddedInPassInvokedUnlessRemoved ==
    /\ \A f \in h_added : CallsOf(f) <= 1
    /\ cpc = "tail" => \A f \in h_added : f \in h_removed \/ CallsOf(f) = 1
    /\ Len(h_calls) <= Cardinality(h_reg \cup h_added)

\* the loop of a pass has ended after invoking the callback its first
\* callback added
C33_Witness ==
    /\ cpc = "tail" /\ h_added # {} /\ h_added \cap h_removed = {}
    /\ Len(h_calls) = 2
    /\ h_calls[2].fn \in h_added
====
